---- MODULE Spec2Model ----
(***************************************************************************)
(* Model of the image-build engine: the daemon event-stream decoder        *)
(* (readDockerOutput), digest recovery and tagging (buildFromDf,           *)
(* getDigestFromDockerOutput, TagImage), image push (PushImage) and the    *)
(* build-manifest synthesizer (DeprecatedFastBuildImage).                  *)
(*                                                                         *)
(* Text is modelled as a sequence of tokens.  The token "SB" stands for    *)
(* the literal "Successfully built ", "a" and "b" are hex digits, "G" is a *)
(* character that is neither a hex digit nor white space, " " and "\n"     *)
(* are white space.                                                        *)
(***************************************************************************)
EXTENDS Integers, Sequences, FiniteSets, TLC

\* ------------------------------------------------------------------ bounds

\* Longest event stream a daemon response carries in the model.
MaxLen == 3

\* Latest clock reading (in the decoder's time units, seconds).
MaxTime == 6

\* Longest run list handed to the manifest synthesizer.
MaxRuns == 3

\* Most chunks a packaging pass writes to the context stream.
MaxChunks == 2

\* --------------------------------------------------------- program constants

\* digestAsTag keeps this many hex characters of the digest.
TagHexLen == 16

\* First backoff window of a message identifier (5 * time.Second).
InitialWait == 5

\* Growth factor of the backoff window on every emitted report.
WaitFactor == 2

\* ------------------------------------------------------------------ helpers

Rep(c, n) == [i \in 1..n |-> c]

SeqsUpTo(S, n) == UNION {[1..k -> S] : k \in 0..n}

Max(a, b) == IF a >= b THEN a ELSE b

\* ------------------------------------------------------------------ digests

\* A digest is text "<algorithm>:<hex>"; ":" is the separator token.
DigestA == <<"sha256", ":">> \o Rep("a", TagHexLen)
DigestB == <<"sha256", ":">> \o Rep("b", TagHexLen) \o <<"a">>
DigestShort == <<"sha256", ":">> \o Rep("a", TagHexLen - 1)
DigestNoSep == Rep("a", TagHexLen)

\* The fixed literal tag prefix.
ImageTagPrefix == <<"t", "i", "l", "t", "-">>

HasSep(d) == \E i \in 1..Len(d) : d[i] = ":"

sepIndex(d) == CHOOSE i \in 1..Len(d) : d[i] = ":" /\ \A j \in 1..(i - 1) : d[j] /= ":"

\* digest.Digest.Encoded: the text after the first separator (the caller
\* checks HasSep first: without a separator Encoded panics).
Encoded(d) == SubSeq(d, sepIndex(d) + 1, Len(d))

\* Variant of digestTooShort: a digest of exactly sixteen hex characters is
\* refused too.
digestTooShortInclusive(d) == Len(Encoded(d)) <= TagHexLen

\* digestAsTag, given a digest that has a separator.
digestTooShort(d) == Len(Encoded(d)) < TagHexLen

digestAsTag(d) == ImageTagPrefix \o SubSeq(Encoded(d), 1, TagHexLen)

\* ------------------------------------------------------------ event records

Sentinel == "moby.buildkit.trace"

NoAux == [present |-> FALSE, kind |-> "none", id |-> <<>>]
DigestAux(d) == [present |-> TRUE, kind |-> "digest", id |-> d]
NoIDAux == [present |-> TRUE, kind |-> "noID", id |-> <<>>]
TraceAux == [present |-> TRUE, kind |-> "trace", id |-> <<>>]

NoProgress == [present |-> FALSE, Current |-> 0, Total |-> 0]
Progress(c, t) == [present |-> TRUE, Current |-> c, Total |-> t]

NoError == [present |-> FALSE, Message |-> ""]

\* jsonmessage.JSONMessage; malformed marks text that is not a JSON object.
Message(stream, errorMessage, err, id, status, progress, aux) ==
    [malformed |-> FALSE, Stream |-> stream, ErrorMessage |-> errorMessage,
     Error |-> err, ID |-> id, Status |-> status, Progress |-> progress,
     Aux |-> aux]

Blank == Message(<<>>, "", NoError, "", "", NoProgress, NoAux)

Malformed == [Blank EXCEPT !.malformed = TRUE]

StreamRecord(text) == [Blank EXCEPT !.Stream = text]

ProgressRecord(id, status, c, t) ==
    [Blank EXCEPT !.ID = id, !.Status = status, !.Progress = Progress(c, t)]

AuxRecord(id, aux) == [Blank EXCEPT !.ID = id, !.Aux = aux]

\* The records a build response is drawn from.
BuildAlphabet ==
    { StreamRecord(<<"x">>),
      StreamRecord(<<"SB", "a", "\n">>),
      StreamRecord(<<"SB", "a", "b">>),
      StreamRecord(<<"SB", "a", "G">>),
      [Blank EXCEPT !.ErrorMessage = "boom"],
      [Blank EXCEPT !.Stream = <<"SB", "b">>,
                    !.Error = [present |-> TRUE, Message |-> "boom"]],
      Malformed,
      AuxRecord("", DigestAux(DigestA)),
      AuxRecord("", DigestAux(DigestShort)),
      AuxRecord("", NoIDAux),
      AuxRecord(Sentinel, TraceAux),
      AuxRecord(Sentinel, DigestAux(DigestB)),
      AuxRecord(Sentinel, NoAux),
      ProgressRecord("l1", "Downloading", 1, 2),
      ProgressRecord("", "Downloading", 1, 2) }

\* The records a push response is drawn from.
PushAlphabet ==
    { ProgressRecord("l1", "Pushing", 1, 2),
      ProgressRecord("l1", "Pushing", 2, 2),
      ProgressRecord("l1", "Waiting", 0, 2),
      ProgressRecord("l1", "Preparing", 0, 0),
      ProgressRecord("l2", "Pushing", 1, 2) }

Ids == {"l1", "l2", Sentinel}

\* ------------------------------------------------------------------- state

VARIABLES
    op,                   \* the running operation: "none", "build", "push"
    pc,                   \* its position
    stream,               \* the daemon's response: a sequence of records
    pos,                  \* records the decoder has consumed
    result,               \* readDockerOutput's local result
    progressLastPrinted,  \* id -> time of the last emitted report
    progressPrintWait,    \* id -> current backoff window
    now,                  \* the last clock reading
    ctxErr,               \* ctx.Err(): "nil", "Canceled", "DeadlineExceeded"
    sink,                 \* what the decoder wrote to the logging sink
    readAt,               \* the clock reading of each consumed record
    forwarded,            \* records handed to toBuildkitStatus
    out,                  \* the dockerOutput readDockerOutput returned
    derr,                 \* the error readDockerOutput returned
    digest,               \* the digest getDigestFromDockerOutput returned
    inspectCalls,         \* arguments of ImageInspectWithRaw calls
    tagCalls,             \* arguments of ImageTag calls
    retRef,               \* the tagged reference the operation returned
    retErr,               \* the error the operation returned
    runs,                 \* DeprecatedFastBuildImage's run steps
    paths,                \* the path mappings of its syncs
    entrypoint,           \* its entrypoint command
    extraLabels,          \* the image builder's extra labels
    df,                   \* the synthesized manifest
    synthErr,             \* the error of manifest synthesis
    digArg,               \* the digest handed to the tagger
    refArg,               \* the tagged reference handed to digestMatchesRef
    tagRes,               \* what digestAsTag returned
    matchRes,             \* what digestMatchesRef returned
    tarPc,                \* the packaging goroutine's position
    tarErr,               \* what tarContextAndUpdateDf returned, or "none"
    written,              \* context chunks the goroutine has written
    pwErr,                \* how the pipe's write end was closed, or "open"
    prClosed,             \* the pipe's read end has been closed
    lastRead,             \* the outcome of the consumer's last pipe read
    bodyCloses,           \* Close calls made on the daemon's response body
    checkpoint,           \* the log streamer's local checkpoint
    logstore,             \* the segments appended to its log store
    received,             \* the views the websocket reader has received
    handled,              \* the received views the handler was invoked for
    acks,                 \* the acknowledgements it has written
    rpc,                  \* the reader goroutine's position
    mpc,                  \* Listen's own position
    listenErr,            \* the error Listen returned
    upIn,                 \* what an upload meets: encoder, request, response
    upRet                 \* what Upload returned

decVars == <<stream, pos, result, progressLastPrinted, progressPrintWait, now,
             sink, readAt, forwarded, out, derr>>

callVars == <<digest, inspectCalls, tagCalls, retRef, retErr>>

synVars == <<runs, paths, entrypoint, extraLabels, df, synthErr>>

tagVars == <<digArg, refArg, tagRes, matchRes>>

pipeVars == <<tarPc, tarErr, written, pwErr, prClosed, lastRead, bodyCloses>>

wsVars == <<checkpoint, logstore, received, handled, acks, rpc, mpc, listenErr>>

upVars == <<upIn, upRet>>

vars == <<op, pc, ctxErr, decVars, callVars, synVars, tagVars, pipeVars,
          wsVars, upVars>>

NotPrinted == -1

EmptyOutput == [aux |-> NoAux, shortDigest |-> <<>>]

NoRef == [name |-> "", tag |-> <<>>]

NoTagRes == [kind |-> "none", tag |-> <<>>]

NoUpload == [kind |-> "none"]

\* ------------------------------------------------------ Build Output Decoder

Hex == {"a", "b"}

WhiteSpace == {" ", "\n"}

\* The length of the longest run of hex digits of msg that starts at i.
RECURSIVE HexRun(_, _)
HexRun(msg, i) ==
    IF i <= Len(msg) /\ msg[i] \in Hex THEN 1 + HexRun(msg, i + 1) ELSE 0

\* oldDigestRegexp.FindStringSubmatch for ^Successfully built ([0-9a-f]+)\s*$:
\* <<whole match, hex group>>, or <<>> when the text does not match.
oldDigestRegexp(msg) ==
    LET n == HexRun(msg, 2)
    IN IF /\ Len(msg) >= 2
          /\ msg[1] = "SB"
          /\ n >= 1
          /\ \A j \in (n + 2)..Len(msg) : msg[j] \in WhiteSpace
       THEN <<msg, SubSeq(msg, 2, n + 1)>>
       ELSE <<>>

\* Variant of streamResult: the first legacy digest line wins.
streamResultFirstWins(message, res) ==
    LET builtDigestMatch == oldDigestRegexp(message.Stream)
    IN IF /\ Len(message.Stream) > 0
          /\ Len(builtDigestMatch) >= 2
          /\ res.shortDigest = <<>>
       THEN [res EXCEPT !.shortDigest = builtDigestMatch[2]]
       ELSE res

\* The stream branch: a legacy digest line sets the short digest.
streamResult(message, res) ==
    LET builtDigestMatch == oldDigestRegexp(message.Stream)
    IN IF Len(message.Stream) > 0 /\ Len(builtDigestMatch) >= 2
       THEN [res EXCEPT !.shortDigest = builtDigestMatch[2]]
       ELSE res

\* Variant of hasError: the structured error object is not looked at.
hasErrorStringOnly(message) == message.ErrorMessage /= ""

\* The two error-record checks.
hasError(message) == message.ErrorMessage /= "" \/ message.Error.present

\* The guard of the progress branch.
isProgress(message) == message.ID /= "" /\ message.Progress.present

\* Variant of shouldPrint: no report is printed on an elapsed window.
shouldPrintNoBackoff(message, lastPrinted, waitDur, t) ==
    \/ lastPrinted = NotPrinted
    \/ message.Progress.Current = message.Progress.Total

\* Variant of shouldPrint: a completion report gets no special treatment.
shouldPrintNoCompletion(message, lastPrinted, waitDur, t) ==
    \/ lastPrinted = NotPrinted
    \/ t - lastPrinted > waitDur

shouldPrint(message, lastPrinted, waitDur, t) ==
    \/ lastPrinted = NotPrinted
    \/ message.Progress.Current = message.Progress.Total
    \/ t - lastPrinted > waitDur

\* Variant of shouldSkip: only the "Waiting" status is suppressed.
shouldSkipWaitingOnly(message) ==
    message.Progress.Current = 0 /\ message.Status = "Waiting"

shouldSkip(message) ==
    /\ message.Progress.Current = 0
    /\ (message.Status = "Waiting" \/ message.Status = "Preparing")

nextWait(waitDur) == IF waitDur = 0 THEN InitialWait ELSE WaitFactor * waitDur

messageIsFromBuildkit(msg) == msg.ID = Sentinel

\* toBuildkitStatus on a present payload: only a graph-trace payload decodes.
toBuildkitStatus(aux) == IF aux.kind = "trace" THEN "nil" ELSE "trace"

\* Variant of auxResult: every payload becomes the result's aux.
auxResultAny(message, res) ==
    IF message.Aux.present THEN [res EXCEPT !.aux = message.Aux] ELSE res

\* The aux branch: a payload that is not graph-trace becomes the result's aux.
auxResult(message, res) ==
    IF message.Aux.present /\ ~messageIsFromBuildkit(message)
    THEN [res EXCEPT !.aux = message.Aux]
    ELSE res

\* Variant of returnAtEnd: the context's error comes with the partial result.
returnAtEndPartial(err, res) == [out |-> res, err |-> err]

\* What readDockerOutput returns once the stream is exhausted.
returnAtEnd(err, res) ==
    IF err /= "nil" THEN [out |-> EmptyOutput, err |-> err]
    ELSE [out |-> res, err |-> "nil"]

\* Variant of readDockerOutput: the throttling maps outlive the call.
readDockerOutputSharedMaps(s) ==
    /\ stream' = s
    /\ pos' = 0
    /\ result' = EmptyOutput
    /\ sink' = <<>>
    /\ readAt' = <<>>
    /\ forwarded' = {}
    /\ out' = EmptyOutput
    /\ derr' = "nil"
    /\ UNCHANGED <<now, progressLastPrinted, progressPrintWait>>

\* The locals readDockerOutput creates on entry, for response s.
readDockerOutput(s) ==
    /\ stream' = s
    /\ pos' = 0
    /\ result' = EmptyOutput
    /\ progressLastPrinted' = [i \in Ids |-> NotPrinted]
    /\ progressPrintWait' = [i \in Ids |-> 0]
    /\ sink' = <<>>
    /\ readAt' = <<>>
    /\ forwarded' = {}
    /\ out' = EmptyOutput
    /\ derr' = "nil"
    /\ UNCHANGED now

\* One iteration of the decoding loop.
ReadRecord ==
    /\ pc = "reading"
    /\ pos < Len(stream)
    /\ LET message == stream[pos + 1]
           bad == message.malformed
           failed == bad \/ hasError(message)
           progress == ~failed /\ isProgress(message)
           id == message.ID
       IN \E t \in (IF progress THEN now..MaxTime ELSE {now}) :
            LET r1 == IF bad THEN result ELSE streamResult(message, result)
                sink1 == IF ~bad /\ Len(message.Stream) > 0
                         THEN Append(sink, [kind |-> "stream", at |-> pos + 1])
                         ELSE sink
                emit == /\ progress
                        /\ shouldPrint(message, progressLastPrinted[id],
                                       progressPrintWait[id], t)
                        /\ ~shouldSkip(message)
                fromBuildkit == ~failed /\ messageIsFromBuildkit(message)
                panic == fromBuildkit /\ ~message.Aux.present
                traceErr == /\ fromBuildkit
                            /\ message.Aux.present
                            /\ toBuildkitStatus(message.Aux) /= "nil"
                returns == failed \/ traceErr
            IN /\ pos' = pos + 1
               /\ now' = t
               /\ readAt' = Append(readAt, t)
               /\ sink' = IF emit
                          THEN Append(sink1, [kind |-> "progress", at |-> pos + 1])
                          ELSE sink1
               /\ progressLastPrinted' =
                      IF emit THEN [progressLastPrinted EXCEPT ![id] = t]
                      ELSE progressLastPrinted
               /\ progressPrintWait' =
                      IF emit
                      THEN [progressPrintWait EXCEPT
                               ![id] = nextWait(progressPrintWait[id])]
                      ELSE progressPrintWait
               /\ forwarded' = IF fromBuildkit THEN forwarded \cup {pos + 1}
                               ELSE forwarded
               /\ result' = IF returns \/ panic THEN r1 ELSE auxResult(message, r1)
               /\ out' = EmptyOutput
               /\ derr' = IF bad THEN "decode"
                          ELSE IF failed THEN "daemon"
                          ELSE IF traceErr THEN "trace"
                          ELSE "nil"
               /\ pc' = IF panic THEN "panic"
                        ELSE IF returns THEN "decoded"
                        ELSE "reading"
    /\ UNCHANGED <<op, ctxErr, stream, callVars, synVars,
                   tagVars, pipeVars>>
    /\ UNCHANGED <<wsVars, upVars>>

\* decoder.More() is false: the stream is exhausted, or the read failed
\* because the governing context was cancelled.
EndOfStream ==
    /\ pc = "reading"
    /\ (pos < Len(stream) => ctxErr /= "nil")
    /\ LET r == returnAtEnd(ctxErr, result)
       IN /\ out' = r.out
          /\ derr' = r.err
    /\ pc' = "decoded"
    /\ UNCHANGED <<op, ctxErr, stream, pos, result, progressLastPrinted,
                   progressPrintWait, now, sink, readAt, forwarded, callVars,
                   synVars,
                   tagVars, pipeVars>>
    /\ UNCHANGED <<wsVars, upVars>>

\* The governing context is cancelled or its deadline passes while the
\* daemon request is under way or the decoder, the one reader of ctx.Err(),
\* is running.
Cancel ==
    /\ pc \in {"reading", "request", "response", "listening"}
    /\ ctxErr = "nil"
    /\ \E e \in {"Canceled", "DeadlineExceeded"} : ctxErr' = e
    /\ UNCHANGED <<op, pc, decVars, callVars, synVars,
                   tagVars, pipeVars>>
    /\ UNCHANGED <<wsVars, upVars>>

\* ------------------------------------------------- digest recovery, tagging

BuildStreams == SeqsUpTo(BuildAlphabet, MaxLen)

PushStreams == SeqsUpTo(PushAlphabet, MaxLen)

\* What ImageInspectWithRaw may answer: an image ID, or an error.
InspectResults ==
    { [err |-> "nil", id |-> DigestA],
      [err |-> "nil", id |-> DigestShort],
      [err |-> "nil", id |-> DigestNoSep],
      [err |-> "inspect", id |-> <<>>] }

\* The name being built or pushed.
RefName == "ref"

\* getDigestFromAux: the payload must be a string map that has an ID.
getDigestFromAux(aux) ==
    IF aux.kind = "digest" THEN [err |-> "nil", id |-> aux.id]
    ELSE [err |-> "getDigestFromAux", id |-> <<>>]

\* Variant of digestSource: an empty short digest is inspected too.
digestSourceUnguarded(output) ==
    IF output.aux.present THEN "aux" ELSE "inspect"

\* Where getDigestFromDockerOutput takes the digest from.
digestSource(output) ==
    IF output.aux.present THEN "aux"
    ELSE IF output.shortDigest /= <<>> THEN "inspect"
    ELSE "none"

NotResponding == "Docker is not responding"

\* buildFromDf up to the daemon's response: the build request fails, or it
\* answers with an event stream.
buildFromDf ==
    /\ pc \in {"idle", "synthesized"}
    /\ UNCHANGED <<synVars, tagVars, pipeVars>>
    /\ op' = "build"
    /\ ctxErr' = "nil"
    /\ \E ok \in BOOLEAN :
         IF ok
         THEN /\ \E s \in BuildStreams : readDockerOutput(s)
              /\ pc' = "reading"
              /\ UNCHANGED callVars
         ELSE /\ pc' = "done"
              /\ retErr' = "ImageBuild"
              /\ UNCHANGED <<decVars, digest, inspectCalls, tagCalls, retRef>>
    /\ UNCHANGED <<wsVars, upVars>>

\* getDigestFromBuildOutput after readDockerOutput has returned.
getDigestFromBuildOutput ==
    /\ pc = "decoded"
    /\ op = "build"
    /\ IF derr /= "nil"
       THEN /\ retErr' = derr
            /\ pc' = "done"
            /\ UNCHANGED <<digest, inspectCalls>>
       ELSE IF digestSource(out) = "aux"
       THEN LET r == getDigestFromAux(out.aux)
            IN /\ retErr' = r.err
               /\ digest' = r.id
               /\ pc' = IF r.err = "nil" THEN "tag" ELSE "done"
               /\ UNCHANGED inspectCalls
       ELSE IF digestSource(out) = "inspect"
       THEN /\ inspectCalls' = Append(inspectCalls, out.shortDigest)
            /\ \E r \in InspectResults :
                 /\ retErr' = r.err
                 /\ digest' = r.id
                 /\ pc' = IF r.err = "nil" THEN "tag" ELSE "done"
       ELSE /\ retErr' = NotResponding
            /\ pc' = "done"
            /\ UNCHANGED <<digest, inspectCalls>>
    /\ UNCHANGED <<op, ctxErr, decVars, tagCalls, retRef, synVars,
                   tagVars, pipeVars>>
    /\ UNCHANGED <<wsVars, upVars>>

\* TagImage: digestAsTag, reference.WithTag, then the daemon's ImageTag.
TagImage ==
    /\ pc = "tag"
    /\ IF ~HasSep(digest)
       THEN /\ pc' = "panic"
            /\ UNCHANGED <<tagCalls, retRef, retErr>>
       ELSE IF digestTooShort(digest)
       THEN /\ pc' = "done"
            /\ retErr' = "digest too short"
            /\ UNCHANGED <<tagCalls, retRef>>
       ELSE LET namedTagged == [name |-> RefName, tag |-> digestAsTag(digest)]
            IN /\ pc' = "done"
               /\ tagCalls' = Append(tagCalls, [source |-> digest,
                                                target |-> namedTagged])
               /\ \E ok \in BOOLEAN :
                    IF ok THEN retRef' = namedTagged /\ UNCHANGED retErr
                    ELSE retErr' = "ImageTag" /\ UNCHANGED retRef
    /\ UNCHANGED <<op, ctxErr, decVars, digest, inspectCalls, synVars,
                   tagVars, pipeVars>>
    /\ UNCHANGED <<wsVars, upVars>>

\* ---------------------------------------------------------------- PushImage

PushedRef == [name |-> RefName, tag |-> <<"v", "1">>]

\* PushImage up to the daemon's response.
PushImage ==
    /\ pc \in {"idle", "done"}
    /\ UNCHANGED <<synVars, tagVars, pipeVars>>
    /\ op' = "push"
    /\ ctxErr' = "nil"
    /\ digest' = <<>>
    /\ inspectCalls' = <<>>
    /\ tagCalls' = <<>>
    /\ retRef' = NoRef
    /\ \E ok \in BOOLEAN :
         IF ok
         THEN /\ \E s \in PushStreams : readDockerOutput(s)
              /\ pc' = "reading"
              /\ retErr' = "nil"
         ELSE /\ pc' = "done"
              /\ retErr' = "ImagePush"
              /\ UNCHANGED decVars
    /\ UNCHANGED <<wsVars, upVars>>

\* PushImage after readDockerOutput has returned: the response is closed
\* and the decode's return values are consumed.  The decoder's own locals
\* are left as they were; only a new call of readDockerOutput sets them.
PushImageReturn ==
    /\ pc = "decoded"
    /\ op = "push"
    /\ pc' = "done"
    /\ retErr' = derr
    /\ retRef' = IF derr = "nil" THEN PushedRef ELSE NoRef
    /\ stream' = <<>>
    /\ pos' = 0
    /\ sink' = <<>>
    /\ readAt' = <<>>
    /\ forwarded' = {}
    /\ out' = EmptyOutput
    /\ derr' = "nil"
    /\ UNCHANGED <<op, ctxErr, result, progressLastPrinted, progressPrintWait,
                   now, digest, inspectCalls, tagCalls, synVars,
                   tagVars, pipeVars>>
    /\ UNCHANGED <<wsVars, upVars>>

\* ------------------------------------------------------ Manifest Synthesizer

\* A manifest is a sequence of instructions [op, a, b].
Instr(o, a, b) == [op |-> o, a |-> a, b |-> b]

\* The dockerfile package's operations on a manifest.
Join(d, instr) == Append(d, instr)

Run(d, cmd) == Join(d, Instr("RUN", cmd, ""))

AddAll(d) == Join(d, Instr("ADD", ".", "/"))

Entrypoint(d, cmd) == Join(d, Instr("ENTRYPOINT", cmd, ""))

WithLabel(d, k, v) == Join(d, Instr("LABEL", k, v))

BuildMode == "tilt.buildMode"

BuildModeScratch == "scratch"

BaseDockerfile == <<Instr("FROM", "base", "")>>

PathMapping(local, container) == [LocalPath |-> local, ContainerPath |-> container]

\* The trigger pattern no matcher can be made from.
BadPattern == "["

\* ignore.CreateRunMatcher: fails on a pattern it cannot parse.
CreateRunMatcherFails(run) == BadPattern \in run.Triggers

\* FilterMappings: the mappings the run's trigger matcher matches, in order.
RECURSIVE FilterMappings(_, _)
FilterMappings(ps, run) ==
    IF ps = <<>> THEN <<>>
    ELSE LET rest == FilterMappings(Tail(ps), run)
         IN IF Head(ps).ContainerPath \in run.Triggers
            THEN <<Head(ps)>> \o rest
            ELSE rest

\* One COPY per matched path, source and destination the same.
RECURSIVE addCopies(_, _)
addCopies(d, pathsToAdd) ==
    IF pathsToAdd = <<>> THEN d
    ELSE addCopies(Join(d, Instr("COPY", Head(pathsToAdd).ContainerPath,
                                 Head(pathsToAdd).ContainerPath)),
                   Tail(pathsToAdd))

NoSynthErr == [kind |-> "nil", cmd |-> ""]

\* Variant of noInputs: a run without inputs is not detected.
noInputsNever(pathsToAdd) == FALSE

\* The check that a conditional run has inputs.
noInputs(pathsToAdd) == Len(pathsToAdd) = 0

\* Variant of addConditionalRunsFrom: the pass does not stop at an
\* unconditional run; it leaves that run for later and goes on.
RECURSIVE addConditionalRunsAnywhere(_, _, _, _)
addConditionalRunsAnywhere(d, rs, ps, i) ==
    IF i > Len(rs)
    THEN [df |-> d, remaining |-> <<>>, err |-> NoSynthErr]
    ELSE IF rs[i].Triggers = {}
    THEN LET r == addConditionalRunsAnywhere(d, rs, ps, i + 1)
         IN IF r.err = NoSynthErr
            THEN [r EXCEPT !.remaining = <<rs[i]>> \o @]
            ELSE r
    ELSE IF CreateRunMatcherFails(rs[i])
    THEN [df |-> <<>>, remaining |-> <<>>,
          err |-> [kind |-> "matcher", cmd |-> ""]]
    ELSE LET pathsToAdd == FilterMappings(ps, rs[i])
         IN IF noInputs(pathsToAdd)
            THEN [df |-> <<>>, remaining |-> <<>>,
                  err |-> [kind |-> "No inputs for run", cmd |-> rs[i].Cmd]]
            ELSE addConditionalRunsAnywhere(
                     Run(addCopies(d, pathsToAdd), rs[i].Cmd), rs, ps, i + 1)

\* addConditionalRuns, from run i on with `d` built so far.
RECURSIVE addConditionalRunsFrom(_, _, _, _)
addConditionalRunsFrom(d, rs, ps, i) ==
    IF i > Len(rs) \/ rs[i].Triggers = {}
    THEN [df |-> d, remaining |-> SubSeq(rs, i, Len(rs)), err |-> NoSynthErr]
    ELSE IF CreateRunMatcherFails(rs[i])
    THEN [df |-> <<>>, remaining |-> <<>>,
          err |-> [kind |-> "matcher", cmd |-> ""]]
    ELSE LET pathsToAdd == FilterMappings(ps, rs[i])
         IN IF noInputs(pathsToAdd)
            THEN [df |-> <<>>, remaining |-> <<>>,
                  err |-> [kind |-> "No inputs for run", cmd |-> rs[i].Cmd]]
            ELSE addConditionalRunsFrom(Run(addCopies(d, pathsToAdd), rs[i].Cmd),
                                        rs, ps, i + 1)

addConditionalRuns(d, rs, ps) == addConditionalRunsFrom(d, rs, ps, 1)

\* Variant of addRemainingRuns: the remaining runs are dropped.
addRemainingRunsNone(d, remaining) == d

RECURSIVE addRemainingRuns(_, _)
addRemainingRuns(d, remaining) ==
    IF remaining = <<>> THEN d
    ELSE addRemainingRuns(Run(d, Head(remaining).Cmd), Tail(remaining))

\* The extra labels in the order the map iteration yields them.
RECURSIVE withLabels(_, _, _)
withLabels(d, labels, order) ==
    IF order = <<>> THEN d
    ELSE withLabels(WithLabel(d, Head(order), labels[Head(order)]), labels,
                    Tail(order))

\* The extra labels are [key |-> value] functions; order lists their keys.
applyLabels(d, buildMode, labels, order) ==
    withLabels(WithLabel(d, BuildMode, buildMode), labels, order)

\* The orders a map iteration may visit the keys S in.
Orders(S) == {o \in [1..Cardinality(S) -> S] : \A k \in S : \E i \in DOMAIN o : o[i] = k}

\* DeprecatedFastBuildImage up to its call of buildFromDf.
DeprecatedFastBuildImage ==
    /\ pc = "idle"
    /\ op' = "build"
    /\ LET r == addConditionalRuns(BaseDockerfile, runs, paths)
       IN IF r.err /= NoSynthErr
          THEN /\ pc' = "done"
               /\ synthErr' = r.err
               /\ df' = r.df
               /\ retErr' = "DeprecatedFastBuildImage"
          ELSE \E order \in Orders(DOMAIN extraLabels) :
                 LET d1 == addRemainingRuns(AddAll(r.df), r.remaining)
                     d2 == IF entrypoint /= <<>> THEN Entrypoint(d1, entrypoint)
                           ELSE d1
                 IN /\ pc' = "synthesized"
                    /\ synthErr' = NoSynthErr
                    /\ df' = applyLabels(d2, BuildModeScratch, extraLabels, order)
                    /\ UNCHANGED retErr
    /\ UNCHANGED <<ctxErr, decVars, digest, inspectCalls, tagCalls, retRef,
                   runs, paths, entrypoint, extraLabels,
                   tagVars, pipeVars>>
    /\ UNCHANGED <<wsVars, upVars>>

\* The inputs of manifest synthesis.
RunSet ==
    { [Cmd |-> "npm install", Triggers |-> {"/package.json"}],
      [Cmd |-> "yarn", Triggers |-> {"/yarn.lock"}],
      [Cmd |-> "npm build", Triggers |-> {}],
      [Cmd |-> "go build", Triggers |-> {"/main.go", "/package.json"}],
      [Cmd |-> "make", Triggers |-> {"/Makefile"}],
      [Cmd |-> "lint", Triggers |-> {BadPattern}] }

PathLists ==
    { <<>>,
      <<PathMapping("package.json", "/package.json")>>,
      <<PathMapping("main.go", "/main.go")>>,
      <<PathMapping("package.json", "/package.json"),
        PathMapping("yarn.lock", "/yarn.lock"),
        PathMapping("main.go", "/main.go")>> }

Entrypoints == {<<>>, <<"/src/main.sh">>}

LabelSets ==
    { <<>>,
      [k \in {"owner"} |-> "me"],
      [k \in {"owner", "team"} |-> "x"],
      [k \in {BuildMode} |-> "extra"],
      [k \in {"owner", BuildMode} |-> "extra"] }

\* ------------------------------------------------------------------- Tagger

\* Variant of HasPrefix: only the whole text counts as its prefix.
HasPrefixWhole(s, prefix) == s = prefix

\* strings.HasPrefix.
HasPrefix(s, prefix) ==
    Len(prefix) <= Len(s) /\ SubSeq(s, 1, Len(prefix)) = prefix

\* What a call of digestAsTag ends with: a panic in Encoded when the digest
\* has no separator, the "digest too short" error, or the tag.
digestAsTagResult(dg) ==
    IF ~HasSep(dg) THEN [kind |-> "panic", tag |-> <<>>]
    ELSE IF digestTooShort(dg) THEN [kind |-> "err", tag |-> <<>>]
    ELSE [kind |-> "ok", tag |-> digestAsTag(dg)]

\* digestMatchesRef: Encoded is called first; then as many characters as the
\* prefix has are cut from the tag, whatever they are.
digestMatchesRef(ref, dg) ==
    IF ~HasSep(dg) THEN "panic"
    ELSE LET digestHash == Encoded(dg)
             tag == ref.tag
         IN IF Len(tag) <= Len(ImageTagPrefix) THEN "false"
            ELSE LET tagHash == SubSeq(tag, Len(ImageTagPrefix) + 1, Len(tag))
                 IN IF HasPrefix(digestHash, tagHash) THEN "true" ELSE "false"

\* A call of digestAsTag on the digest under test.
DigestAsTagCall ==
    /\ pc = "idle"
    /\ tagRes.kind = "none"
    /\ tagRes' = digestAsTagResult(digArg)
    /\ UNCHANGED <<op, pc, ctxErr, decVars, callVars, synVars, digArg, refArg,
                   matchRes, pipeVars>>
    /\ UNCHANGED <<wsVars, upVars>>

\* A call of digestMatchesRef on the reference and the digest under test.
DigestMatchesRefCall ==
    /\ pc = "idle"
    /\ matchRes = "none"
    /\ matchRes' = digestMatchesRef(refArg, digArg)
    /\ UNCHANGED <<op, pc, ctxErr, decVars, callVars, synVars, digArg, refArg,
                   tagRes, pipeVars>>
    /\ UNCHANGED <<wsVars, upVars>>

\* The digests the tagger is called with: well-formed ones of sixteen and of
\* seventeen hex characters, two that share their first sixteen, short ones,
\* one without hex characters and one without a separator.
TagDigests ==
    { DigestA,
      DigestB,
      DigestA \o <<"b">>,
      DigestShort,
      <<"sha256", ":", "a", "b">>,
      <<"sha256", ":">>,
      DigestNoSep }

\* The tags of the references digestMatchesRef is called with.
TagTexts ==
    { ImageTagPrefix \o Rep("a", TagHexLen),
      ImageTagPrefix \o Rep("b", TagHexLen),
      ImageTagPrefix \o Rep("a", TagHexLen) \o <<"b">>,
      ImageTagPrefix \o Rep("a", TagHexLen - 1),
      ImageTagPrefix \o <<"a">>,
      ImageTagPrefix,
      <<"v", "1">>,
      <<>>,
      <<"v", "1", ".", "0", "-">> \o Rep("a", TagHexLen),
      <<"v", "1", ".", "0", "-", "a", "b">> }

\* ---------------------------------------------------------- Context Packager

\* What a pipe operation fails with once the other end has been closed.
ErrClosedPipe == "io: read/write on closed pipe"

\* A failure of the packaging pass itself (a file that cannot be archived).
TarFailure == "tar"

\* What the daemon request fails with.
RequestFailure == "daemon request"

\* Variant of closeWriter: the write end is always closed cleanly.
closeWriterClean(err) == "EOF"

\* The goroutine's last step: pw.CloseWithError(err), or pw.Close() which
\* the reader sees as a clean end of stream.
closeWriter(err) == IF err /= "nil" THEN err ELSE "EOF"

\* buildFromDf up to its call of ImageBuild: the pipe is made and the
\* packaging goroutine started.
StartBuild ==
    /\ pc = "idle"
    /\ op' = "build"
    /\ pc' = "request"
    /\ ctxErr' = "nil"
    /\ tarPc' = "running"
    /\ tarErr' = "none"
    /\ written' = 0
    /\ pwErr' = "open"
    /\ prClosed' = FALSE
    /\ lastRead' = "none"
    /\ bodyCloses' = 0
    /\ UNCHANGED <<decVars, callVars, synVars, tagVars>>
    /\ UNCHANGED <<wsVars, upVars>>

\* The packaging pass calls pw.Write with its next chunk; the call blocks
\* until the reader has taken the chunk or an end of the pipe is closed.
TarWrite ==
    /\ tarPc = "running"
    /\ written < MaxChunks
    /\ tarPc' = "writing"
    /\ UNCHANGED <<op, pc, ctxErr, decVars, callVars, synVars, tagVars, tarErr,
                   written, pwErr, prClosed, lastRead, bodyCloses>>
    /\ UNCHANGED <<wsVars, upVars>>

\* A blocked pw.Write fails because the read end was closed; the packaging
\* pass returns that error and the goroutine closes the write end with it.
TarWriteFails ==
    /\ tarPc = "writing"
    /\ prClosed
    /\ tarPc' = "closed"
    /\ tarErr' = ErrClosedPipe
    /\ pwErr' = closeWriter(ErrClosedPipe)
    /\ UNCHANGED <<op, pc, ctxErr, decVars, callVars, synVars, tagVars,
                   written, prClosed, lastRead, bodyCloses>>
    /\ UNCHANGED <<wsVars, upVars>>

\* The packaging pass returns between two writes, with a failure of its own
\* or with nil once the archive is complete, and the goroutine closes the
\* write end.
TarReturn ==
    /\ tarPc = "running"
    /\ \E err \in {"nil", TarFailure} :
         /\ tarErr' = err
         /\ pwErr' = closeWriter(err)
    /\ tarPc' = "closed"
    /\ UNCHANGED <<op, pc, ctxErr, decVars, callVars, synVars, tagVars,
                   written, prClosed, lastRead, bodyCloses>>
    /\ UNCHANGED <<wsVars, upVars>>

\* ImageBuild reads the context stream: it takes the chunk of a blocked
\* write, or learns how the write end was closed; it blocks otherwise.
DaemonRead ==
    /\ pc = "request"
    /\ ~prClosed
    /\ lastRead \in {"none", "data"}
    /\ IF tarPc = "writing"
       THEN /\ lastRead' = "data"
            /\ tarPc' = "running"
            /\ written' = written + 1
       ELSE /\ pwErr /= "open"
            /\ lastRead' = pwErr
            /\ UNCHANGED <<tarPc, written>>
    /\ UNCHANGED <<op, pc, ctxErr, decVars, callVars, synVars, tagVars, tarErr,
                   pwErr, prClosed, bodyCloses>>
    /\ UNCHANGED <<wsVars, upVars>>

\* ImageBuild returns.  It answers with a response only after it has read
\* the context stream to a clean end; it may fail at any time.  It is
\* handed the stream as an io.Reader and may or may not have closed it.
ImageBuildReturn ==
    /\ pc = "request"
    /\ \E ok \in BOOLEAN, closes \in BOOLEAN :
         /\ ok => lastRead = "EOF"
         /\ prClosed' = (prClosed \/ closes)
         /\ IF ok
            THEN pc' = "response" /\ UNCHANGED retErr
            ELSE pc' = "done" /\ retErr' = RequestFailure
    /\ UNCHANGED <<op, ctxErr, decVars, digest, inspectCalls, tagCalls, retRef,
                   synVars, tagVars, tarPc, tarErr, written, pwErr, lastRead,
                   bodyCloses>>
    /\ UNCHANGED <<wsVars, upVars>>

\* How buildFromDf ends once it has a response: a decode error, the
\* context's error, no digest, a tagging failure, a panic, or a tagged
\* reference.
BuildOutcomes ==
    {[err |-> e, ref |-> NoRef] :
        e \in {"ImageBuild", "Canceled", "DeadlineExceeded", NotResponding,
               "digest too short", "ImageTag", "panic"}}
    \cup {[err |-> "nil", ref |-> [name |-> RefName, tag |-> digestAsTag(DigestA)]]}

\* buildFromDf from the response on: the deferred close of the response
\* body, getDigestFromBuildOutput and TagImage.
DecodeAndTag ==
    /\ pc = "response"
    /\ bodyCloses' = bodyCloses + 1
    /\ \E o \in BuildOutcomes :
         /\ o.err \in {"Canceled", "DeadlineExceeded"} => ctxErr = o.err
         /\ pc' = IF o.err = "panic" THEN "panic" ELSE "done"
         /\ retErr' = IF o.err = "panic" THEN retErr ELSE o.err
         /\ retRef' = o.ref
    /\ UNCHANGED <<op, ctxErr, decVars, digest, inspectCalls, tagCalls,
                   synVars, tagVars, tarPc, tarErr, written, pwErr, prClosed,
                   lastRead>>
    /\ UNCHANGED <<wsVars, upVars>>

\* ------------------------------------------------------------ specifications

\* No operation has started: every decoder and caller variable is unset.
InitCalls ==
    /\ op = "none"
    /\ pc = "idle"
    /\ stream = <<>>
    /\ pos = 0
    /\ result = EmptyOutput
    /\ progressLastPrinted = [i \in Ids |-> NotPrinted]
    /\ progressPrintWait = [i \in Ids |-> 0]
    /\ now = 0
    /\ ctxErr = "nil"
    /\ sink = <<>>
    /\ readAt = <<>>
    /\ forwarded = {}
    /\ out = EmptyOutput
    /\ derr = "nil"
    /\ digest = <<>>
    /\ inspectCalls = <<>>
    /\ tagCalls = <<>>
    /\ retRef = NoRef
    /\ retErr = "nil"
    /\ df = <<>>
    /\ synthErr = NoSynthErr
    /\ tagRes = NoTagRes
    /\ matchRes = "none"
    /\ tarPc = "idle"
    /\ tarErr = "none"
    /\ written = 0
    /\ pwErr = "open"
    /\ prClosed = FALSE
    /\ lastRead = "none"
    /\ bodyCloses = 0
    /\ checkpoint = 0
    /\ logstore = <<>>
    /\ received = <<>>
    /\ handled = {}
    /\ acks = <<>>
    /\ rpc = "idle"
    /\ mpc = "idle"
    /\ listenErr = "nil"
    /\ upRet = NoUpload

Init ==
    /\ InitCalls
    /\ upIn = NoUpload
    /\ digArg = <<>>
    /\ refArg = NoRef
    /\ runs = <<>>
    /\ paths = <<>>
    /\ entrypoint = <<>>
    /\ extraLabels = <<>>

\* One build: the daemon request, decoding, digest recovery, tagging.
Next ==
    \/ buildFromDf
    \/ ReadRecord
    \/ EndOfStream
    \/ Cancel
    \/ getDigestFromBuildOutput
    \/ TagImage

Spec == Init /\ [][Next]_vars

\* Pushes, one after another.
NextPush ==
    \/ PushImage
    \/ ReadRecord
    \/ EndOfStream
    \/ Cancel
    \/ PushImageReturn

SpecPush == Init /\ [][NextPush]_vars

\* Manifest synthesis, over the inputs of the model.
InitSynth ==
    /\ InitCalls
    /\ upIn = NoUpload
    /\ digArg = <<>>
    /\ refArg = NoRef
    /\ runs \in SeqsUpTo(RunSet, MaxRuns)
    /\ paths \in PathLists
    /\ entrypoint \in Entrypoints
    /\ extraLabels \in LabelSets

NextSynth == DeprecatedFastBuildImage

SpecSynth == InitSynth /\ [][NextSynth]_vars

\* The tagger's two functions, over the digests and references of the model.
InitTag ==
    /\ InitCalls
    /\ upIn = NoUpload
    /\ runs = <<>>
    /\ paths = <<>>
    /\ entrypoint = <<>>
    /\ extraLabels = <<>>
    /\ digArg \in TagDigests
    /\ refArg \in {[name |-> RefName, tag |-> t] : t \in TagTexts}

NextTag ==
    \/ DigestAsTagCall
    \/ DigestMatchesRefCall

SpecTag == InitTag /\ [][NextTag]_vars

\* One build, with its packaging goroutine and the daemon request.
NextPipe ==
    \/ StartBuild
    \/ TarWrite
    \/ TarWriteFails
    \/ TarReturn
    \/ DaemonRead
    \/ ImageBuildReturn
    \/ Cancel
    \/ DecodeAndTag

SpecPipe == Init /\ [][NextPipe]_vars

\* Each unit takes its next step as long as it has one.
SpecPipeFair == SpecPipe /\ WF_vars(NextPipe)

\* ------------------------------------------------- vocabulary of the claims

\* A record that reports a daemon error.
IsErrorRecord(m) == ~m.malformed /\ (m.ErrorMessage /= "" \/ m.Error.present)

\* A record tagged graph-trace whose payload the trace protocol cannot decode.
IsMalformedTrace(m) ==
    ~m.malformed /\ m.ID = Sentinel /\ m.Aux.present /\ m.Aux.kind /= "trace"

ErrorIndexes == {i \in 1..Len(stream) : IsErrorRecord(stream[i])}

SetMin(S) == CHOOSE x \in S : \A y \in S : x <= y

SetMax(S) == CHOOSE x \in S : \A y \in S : x >= y

\* The decoder got past the error checks of record i.
Processed(i) == i <= pos /\ ~stream[i].malformed /\ ~IsErrorRecord(stream[i])

\* readDockerOutput has returned to buildFromDf.
BuildDecoded == op = "build" /\ pc \in {"decoded", "tag", "done"} /\ retErr /= "ImageBuild"

\* The hex group of a legacy digest line, <<>> for any other text.
LegacyHex(text) ==
    LET N == {n \in 1..(Len(text) - 1) :
                 /\ text[1] = "SB"
                 /\ \A j \in 2..(n + 1) : text[j] \in {"a", "b"}
                 /\ \A j \in (n + 2)..Len(text) : text[j] \in {" ", "\n"}}
    IN IF N = {} THEN <<>> ELSE SubSeq(text, 2, 1 + SetMax(N))

MatchIndexes ==
    {i \in 1..Len(stream) : ~stream[i].malformed /\ LegacyHex(stream[i].Stream) /= <<>>}

NonTraceAux ==
    {i \in 1..Len(stream) :
        ~stream[i].malformed /\ stream[i].Aux.present /\ stream[i].ID /= Sentinel}

\* The positions of the progress reports written to the logging sink.
EmittedOf(s) == {s[k].at : k \in {j \in 1..Len(s) : s[j].kind = "progress"}}

Emitted == EmittedOf(sink)

\* The progress reports of identifier id in the stream.
ProgressIdx(id) ==
    {i \in 1..Len(stream) :
        /\ ~stream[i].malformed
        /\ ~IsErrorRecord(stream[i])
        /\ stream[i].ID = id
        /\ stream[i].Progress.present}

IsCompletion(m) == m.Progress.Current = m.Progress.Total

IsSuppressed(m) ==
    m.Progress.Current = 0 /\ m.Status \in {"Waiting", "Preparing"}

Decoding == pc \in {"reading", "decoded"}

\* ------------------------------------------------------------------- claims

\* C1: whenever readDockerOutput has returned on a stream that contains an
\* error record, it returned an error and an empty output, and no record
\* after the first error record was consumed or logged.
C1_ErrorRecordFailsDecode ==
    ErrorIndexes /= {} =>
        /\ pos <= SetMin(ErrorIndexes)
        /\ \A k \in 1..Len(sink) : sink[k].at <= SetMin(ErrorIndexes)
        /\ BuildDecoded => (derr /= "nil" /\ out = EmptyOutput)

C1_Witness ==
    /\ pc = "decoded"
    /\ Len(stream) = 3
    /\ pos = 2
    /\ stream[1].Aux.present /\ stream[1].ID /= Sentinel
    /\ IsErrorRecord(stream[2])
    /\ LegacyHex(stream[2].Stream) /= <<>>
    /\ result.aux.present
    /\ result.shortDigest /= <<>>
    /\ derr = "daemon"
    /\ out = EmptyOutput

\* C2: a build returns a tagged reference only with a digest taken from a
\* structured aux payload that has an ID, or from one successful inspection
\* of the legacy short digest; with neither an aux payload nor a short digest
\* the build fails with the "Docker is not responding" error and issues no
\* tag operation.
C2_SuccessNeedsDigest ==
    /\ retRef /= NoRef =>
         /\ op = "build" /\ pc = "done" /\ retErr = "nil" /\ derr = "nil"
         /\ \/ /\ out.aux.present
               /\ out.aux.kind = "digest"
               /\ digest = out.aux.id
               /\ inspectCalls = <<>>
            \/ /\ ~out.aux.present
               /\ out.shortDigest /= <<>>
               /\ inspectCalls = <<out.shortDigest>>
         /\ tagCalls = <<[source |-> digest, target |-> retRef]>>
    /\ (BuildDecoded /\ pc = "done" /\ derr = "nil" /\ out = EmptyOutput) =>
         /\ retErr = NotResponding
         /\ retRef = NoRef
         /\ tagCalls = <<>>
         /\ inspectCalls = <<>>

C2_Witness ==
    /\ op = "build" /\ pc = "done"
    /\ retRef /= NoRef
    /\ ~out.aux.present
    /\ inspectCalls = <<out.shortDigest>>
    /\ digest = DigestA

\* C3: when the stream is exhausted under a context that is cancelled or
\* timed out, and the stream holds no error record and no malformed record,
\* readDockerOutput returns the context's error and an empty output.
CleanStream ==
    \A i \in 1..Len(stream) :
        /\ ~stream[i].malformed
        /\ ~IsErrorRecord(stream[i])
        /\ ~IsMalformedTrace(stream[i])

C3_CancellationWins ==
    [][(pc = "reading" /\ pc' = "decoded" /\ ctxErr /= "nil" /\ CleanStream)
          => (derr' = ctxErr /\ out' = EmptyOutput)]_vars

C3_Witness ==
    /\ pc = "decoded"
    /\ CleanStream
    /\ pos = Len(stream)
    /\ derr = "DeadlineExceeded"
    /\ ctxErr = "DeadlineExceeded"
    /\ result.aux.present
    /\ result.shortDigest /= <<>>
    /\ out = EmptyOutput

\* C4: an aux record the decoder processes is handed to the trace renderer
\* exactly when its identifier is the sentinel, its payload never becomes
\* the result's aux, and a decode that ends without error returns the aux of
\* the last record that has an aux payload and another identifier.
C4_AuxRouting ==
    /\ \A i \in 1..pos :
         (Processed(i) /\ stream[i].Aux.present) =>
             /\ (i \in forwarded) <=> (stream[i].ID = "moby.buildkit.trace")
             /\ stream[i].ID = "moby.buildkit.trace" =>
                    (result.aux /= stream[i].Aux /\ out.aux /= stream[i].Aux)
    /\ (BuildDecoded /\ derr = "nil") =>
         out.aux = IF NonTraceAux = {} THEN NoAux
                   ELSE stream[SetMax(NonTraceAux)].Aux

C4_Witness ==
    /\ pc = "decoded"
    /\ derr = "nil"
    /\ Len(stream) = 3
    /\ stream[1].Aux = DigestAux(DigestShort)
    /\ stream[2].Aux = DigestAux(DigestA)
    /\ stream[2].ID /= Sentinel
    /\ stream[3].ID = Sentinel
    /\ forwarded = {3}
    /\ out.aux = DigestAux(DigestA)

\* C5: after a decode without error, with a legacy digest line and no
\* non-trace aux record the short digest is the hex of the last such line
\* and digest resolution issues exactly one inspection call, with it; with a
\* non-trace aux record the aux payload is used and no inspection is issued.
C5_LegacyDigest ==
    (BuildDecoded /\ derr = "nil") =>
        /\ (MatchIndexes /= {} /\ NonTraceAux = {}) =>
             /\ out.shortDigest = LegacyHex(stream[SetMax(MatchIndexes)].Stream)
             /\ pc \in {"tag", "done"} => inspectCalls = <<out.shortDigest>>
        /\ NonTraceAux /= {} =>
             /\ inspectCalls = <<>>
             /\ pc \in {"tag", "done"} =>
                  \/ retErr = "getDigestFromAux"
                  \/ digest = stream[SetMax(NonTraceAux)].Aux.id

C5_Witness ==
    /\ op = "build" /\ pc = "done"
    /\ retRef /= NoRef
    /\ NonTraceAux = {}
    /\ Len(stream) = 3
    /\ LegacyHex(stream[1].Stream) = <<"a">>
    /\ LegacyHex(stream[3].Stream) = <<"a", "b">>
    /\ inspectCalls = << <<"a", "b">> >>

\* The identifier's reports are exactly three, all consumed, read at times
\* t0 < t1 < t2 with t1 - t0 < 5 and t2 - t0 > 5, none of them a completion.
ThreeReports(id) ==
    LET P == ProgressIdx(id)
    IN /\ Decoding
       /\ Cardinality(P) = 3
       /\ SetMax(P) <= pos
       /\ LET i0 == SetMin(P)
              i2 == SetMax(P)
              i1 == CHOOSE i \in P : i /= i0 /\ i /= i2
          IN /\ readAt[i0] < readAt[i1]
             /\ readAt[i1] < readAt[i2]
             /\ readAt[i1] - readAt[i0] < 5
             /\ readAt[i2] - readAt[i0] > 5
             /\ \A i \in P : ~IsCompletion(stream[i])

\* Exactly the first and the last of the identifier's reports were emitted.
FirstAndLastEmitted(id) ==
    Emitted \cap ProgressIdx(id) = {SetMin(ProgressIdx(id)), SetMax(ProgressIdx(id))}

\* C6, as stated: of three same-identifier progress records at t0 < t1 < t2
\* with t1 - t0 < 5 and t2 - t0 > 5, none a completion, exactly those at t0
\* and t2 are emitted.
C6_Original ==
    \A id \in Ids \ {""} : ThreeReports(id) => FirstAndLastEmitted(id)

\* C6, amended: the same, for records none of which is a completion or a
\* current == 0 "Waiting"/"Preparing" report.
C6_Throttling ==
    \A id \in Ids \ {""} :
        (ThreeReports(id) /\ \A i \in ProgressIdx(id) : ~IsSuppressed(stream[i]))
            => FirstAndLastEmitted(id)

C6_Witness ==
    /\ pc = "decoded"
    /\ Len(stream) = 3
    /\ ThreeReports("l1")
    /\ \A i \in 1..3 : ~IsSuppressed(stream[i])
    /\ readAt = <<0, 4, 6>>
    /\ Emitted = {1, 3}

\* The number of reports emitted for an identifier in this decode.
EmittedCount(id) == Cardinality({i \in Emitted : stream[i].ID = id})

BackoffMatchesEmissions ==
    Decoding =>
        \A id \in Ids :
            LET k == EmittedCount(id)
            IN /\ progressPrintWait[id] = IF k = 0 THEN 0 ELSE 5 * 2 ^ (k - 1)
               /\ (progressLastPrinted[id] = NotPrinted) <=> (k = 0)

OtherIdentifiersUntouched ==
    \A id \in Ids :
        (pc = "reading" /\ pos' = pos + 1 /\ stream[pos + 1].ID /= id) =>
            /\ progressPrintWait'[id] = progressPrintWait[id]
            /\ progressLastPrinted'[id] = progressLastPrinted[id]

\* C7: in every decode an identifier's backoff window is 5 * 2^(k-1) after
\* its k-th emitted report and unset before the first (so every decode starts
\* with empty throttling state), and a report never changes the window or
\* the last-printed time of another identifier.
C7_BackoffPerIdentifier ==
    []BackoffMatchesEmissions /\ [][OtherIdentifiersUntouched]_vars

C7_Witness ==
    /\ pc = "reading"
    /\ pos = 3
    /\ EmittedCount("l1") = 2
    /\ EmittedCount("l2") = 1
    /\ progressPrintWait["l1"] = 10
    /\ progressPrintWait["l2"] = 5
    /\ stream[2].ID = "l2"

\* Record i is a progress report the decoder looked at.
Report(i) ==
    Processed(i) /\ stream[i].ID /= "" /\ stream[i].Progress.present

FirstOrCompletion(i) ==
    i = SetMin(ProgressIdx(stream[i].ID)) \/ IsCompletion(stream[i])

\* C8, as stated: the first report of an identifier and every completion
\* report are emitted.
C8_Original ==
    Decoding => \A i \in 1..pos : (Report(i) /\ FirstOrCompletion(i)) => i \in Emitted

\* C8, amended: the first report of an identifier and every completion
\* report are emitted, whatever the elapsed time, unless the report has
\* current == 0 and status "Waiting" or "Preparing".
C8_AlwaysEmitted ==
    Decoding =>
        \A i \in 1..pos :
            (Report(i) /\ FirstOrCompletion(i) /\ ~IsSuppressed(stream[i]))
                => i \in Emitted

C8_Witness ==
    /\ Decoding
    /\ pos >= 2
    /\ stream[1].ID = "l1"
    /\ stream[2].ID = "l1"
    /\ IsCompletion(stream[2])
    /\ ~IsCompletion(stream[1])
    /\ readAt[1] = readAt[2]
    /\ Emitted = {1, 2}

\* C9: a report with current == 0 and status "Waiting" or "Preparing" is
\* never emitted, first report or not, window elapsed or not, and leaves the
\* last-printed times and the backoff windows as they were.
C9_SuppressedStep ==
    (/\ pc = "reading"
     /\ pos' = pos + 1
     /\ stream[pos + 1].Progress.present
     /\ IsSuppressed(stream[pos + 1]))
        => /\ EmittedOf(sink') = EmittedOf(sink)
           /\ progressLastPrinted' = progressLastPrinted
           /\ progressPrintWait' = progressPrintWait

C9_WaitingNeverEmitted ==
    /\ [](Decoding => \A i \in Emitted : ~IsSuppressed(stream[i]))
    /\ [][C9_SuppressedStep]_vars

C9_Witness ==
    /\ Decoding
    /\ pos = 3
    /\ IsSuppressed(stream[1])
    /\ ~IsSuppressed(stream[2])
    /\ IsSuppressed(stream[3])
    /\ IsCompletion(stream[3])
    /\ stream[1].ID = stream[3].ID
    /\ stream[2].ID = stream[3].ID
    /\ readAt[3] - readAt[2] > 5
    /\ Emitted = {2}

\* Synthesis has run.
Synthesized == pc \in {"synthesized", "done"} /\ op = "build"

\* The path mappings a run's triggers match, counted without the model's filter.
MatchCount(run) ==
    Cardinality({j \in 1..Len(paths) : paths[j].ContainerPath \in run.Triggers})

\* A conditional run, with a well-formed trigger set, that matches no path.
ZeroMatch(i) ==
    /\ runs[i].Triggers /= {}
    /\ "[" \notin runs[i].Triggers
    /\ MatchCount(runs[i]) = 0

\* The run stands in the leading conditional prefix: every run before it is
\* conditional and matches at least one path.
InPrefix(i) ==
    \A j \in 1..(i - 1) :
        /\ runs[j].Triggers /= {}
        /\ "[" \notin runs[j].Triggers
        /\ MatchCount(runs[j]) > 0

FailsNaming(i) ==
    /\ pc = "done"
    /\ synthErr = [kind |-> "No inputs for run", cmd |-> runs[i].Cmd]
    /\ retErr /= "nil"
    /\ df = <<>>

\* C10, as stated: a conditional run that matches zero path mappings makes
\* synthesis fail with an error naming its command, wherever it stands.
C10_Original ==
    Synthesized => \A i \in 1..Len(runs) : ZeroMatch(i) => FailsNaming(i)

\* C10, amended: a conditional run that matches zero path mappings and
\* stands in the leading conditional prefix makes synthesis fail with an
\* error naming its command, and no manifest (so no run-instruction) is
\* produced.
C10_NoInputsInPrefix ==
    Synthesized =>
        \A i \in 1..Len(runs) : (ZeroMatch(i) /\ InPrefix(i)) => FailsNaming(i)

C10_Witness ==
    /\ Synthesized
    /\ Len(runs) = 3
    /\ MatchCount(runs[1]) = 1
    /\ ZeroMatch(2)
    /\ ZeroMatch(3)
    /\ runs[2].Cmd /= runs[3].Cmd
    /\ FailsNaming(2)

\* The length of the leading conditional prefix: the runs that stand before
\* the first run with an empty trigger set.
PrefixLen ==
    Cardinality({i \in 1..Len(runs) : \A j \in 1..i : runs[j].Triggers /= {}})

\* The path mappings run i's triggers match, in the order of the mappings.
Matched(i) == SelectSeq(paths, LAMBDA p : p.ContainerPath \in runs[i].Triggers)

CopyOf(p) == [op |-> "COPY", a |-> p.ContainerPath, b |-> p.ContainerPath]

RunOf(i) == [op |-> "RUN", a |-> runs[i].Cmd, b |-> ""]

\* For each of the first n runs: its copies, then its run-instruction.
RECURSIVE PrefixPart(_)
PrefixPart(n) ==
    IF n = 0 THEN <<>>
    ELSE PrefixPart(n - 1)
         \o [k \in 1..Len(Matched(n)) |-> CopyOf(Matched(n)[k])]
         \o <<RunOf(n)>>

\* The manifest up to the labels, as the claim lays it out.
ExpectedBody ==
    <<[op |-> "FROM", a |-> "base", b |-> ""]>>
    \o PrefixPart(PrefixLen)
    \o <<[op |-> "ADD", a |-> ".", b |-> "/"]>>
    \o [k \in 1..(Len(runs) - PrefixLen) |-> RunOf(PrefixLen + k)]
    \o (IF entrypoint /= <<>>
        THEN <<[op |-> "ENTRYPOINT", a |-> entrypoint, b |-> ""]>>
        ELSE <<>>)

LabelsPart == SubSeq(df, Len(ExpectedBody) + 1, Len(df))

\* The build-mode label, then one label-instruction per extra label.
LabelsAsExpected ==
    /\ Len(df) = Len(ExpectedBody) + 1 + Cardinality(DOMAIN extraLabels)
    /\ LabelsPart[1] = [op |-> "LABEL", a |-> "tilt.buildMode", b |-> "scratch"]
    /\ {LabelsPart[k] : k \in 2..Len(LabelsPart)}
         = {[op |-> "LABEL", a |-> k, b |-> extraLabels[k]] : k \in DOMAIN extraLabels}

InstrsOf(kind) == SelectSeq(df, LAMBDA x : x.op = kind)

\* The position in the manifest of its i-th instruction of a kind.
PosOf(kind, i) ==
    CHOOSE p \in 1..Len(df) :
        /\ df[p].op = kind
        /\ Cardinality({q \in 1..p : df[q].op = kind}) = i

\* C11: on success the manifest is the base, then copies and run-instruction
\* of each run of the leading conditional prefix, then the catch-all copy,
\* then the remaining runs in order, then the entrypoint iff one was
\* supplied, then the labels; every run yields exactly one run-instruction,
\* in input order, and with no conditional run none precedes the catch-all.
C11_ManifestLayout ==
    (op = "build" /\ pc = "synthesized") =>
        /\ SubSeq(df, 1, Len(ExpectedBody)) = ExpectedBody
        /\ LabelsAsExpected
        /\ Len(InstrsOf("RUN")) = Len(runs)
        /\ \A i \in 1..Len(runs) : InstrsOf("RUN")[i] = RunOf(i)
        /\ Len(InstrsOf("ADD")) = 1
        /\ (\A i \in 1..Len(runs) : runs[i].Triggers = {}) =>
               \A i \in 1..Len(runs) : PosOf("RUN", i) > PosOf("ADD", 1)

C11_Witness ==
    /\ op = "build"
    /\ pc = "synthesized"
    /\ Len(runs) = 3
    /\ PrefixLen = 1
    /\ Len(Matched(1)) = 2
    /\ entrypoint /= <<>>
    /\ Cardinality(DOMAIN extraLabels) = 2
    /\ Len(df) = 11

\* Every run of the leading conditional prefix has a well-formed trigger set
\* that matches at least one path mapping.
PrefixHasInputs ==
    \A j \in 1..PrefixLen : "[" \notin runs[j].Triggers /\ MatchCount(runs[j]) > 0

RECURSIVE PrefixMatches(_)
PrefixMatches(n) ==
    IF n = 0 THEN 0 ELSE PrefixMatches(n - 1) + MatchCount(runs[n])

\* C12: the conditional-prefix pass stops at the first run with an empty
\* trigger set: a run after it, conditional or not, brings no per-path copy
\* and no "no inputs" error, and its run-instruction follows the catch-all
\* copy.
C12_PrefixStopsAtFirstUnconditional ==
    (Synthesized /\ PrefixLen < Len(runs) /\ PrefixHasInputs) =>
        /\ pc = "synthesized"
        /\ synthErr = [kind |-> "nil", cmd |-> ""]
        /\ Len(InstrsOf("COPY")) = PrefixMatches(PrefixLen)
        /\ \A i \in (PrefixLen + 2)..Len(runs) :
               /\ i <= Len(InstrsOf("RUN"))
               /\ PosOf("RUN", i) > PosOf("ADD", 1)
               /\ df[PosOf("RUN", i)].a = runs[i].Cmd

C12_Witness ==
    /\ pc = "synthesized"
    /\ Len(runs) = 3
    /\ PrefixLen = 1
    /\ ZeroMatch(3)
    /\ MatchCount(runs[1]) = 1
    /\ Len(InstrsOf("COPY")) = 1
    /\ df[4].op = "ADD"
    /\ df[6] = RunOf(3)

\* The value a label key has in a manifest: that of the last label-instruction
\* with the key (a later instruction overrides an earlier one).
LabelInEffect(d, key) ==
    LET at == {p \in 1..Len(d) : d[p].op = "LABEL" /\ d[p].a = key}
    IN IF at = {} THEN "" ELSE d[SetMax(at)].b

\* C13: extra labels never overwrite an explicit label: whatever the extra
\* labels are, the build-mode label in effect in the synthesized manifest is
\* the explicit build mode.
C13_ExplicitBuildModeWins ==
    (op = "build" /\ pc = "synthesized") =>
        LabelInEffect(df, "tilt.buildMode") = "scratch"

\* The manifest the synthesis of the current inputs yields when the extra
\* labels are visited in the given order.
ManifestUnder(order) ==
    LET r == addConditionalRuns(BaseDockerfile, runs, paths)
        d1 == addRemainingRuns(AddAll(r.df), r.remaining)
        d2 == IF entrypoint /= <<>> THEN Entrypoint(d1, entrypoint) ELSE d1
    IN applyLabels(d2, BuildModeScratch, extraLabels, order)

\* C14: synthesis is deterministic: the manifest of a synthesis is the one
\* every synthesis of the same inputs yields, whatever order the extra-label
\* mapping is iterated in.
C14_Deterministic ==
    (op = "build" /\ pc = "synthesized") =>
        \A order \in Orders(DOMAIN extraLabels) : df = ManifestUnder(order)

\* The encoded hex form of a digest: the text after its first separator; a
\* digest without a separator has none.
HexForm(dg) ==
    LET seps == {i \in 1..Len(dg) : dg[i] = ":"}
    IN IF seps = {} THEN <<>> ELSE SubSeq(dg, SetMin(seps) + 1, Len(dg))

FirstSixteen(dg) == SubSeq(HexForm(dg), 1, 16)

TagPrefixText == <<"t", "i", "l", "t", "-">>

\* What the claim has digestAsTag return for the digest under test.
TagAsClaimed ==
    /\ tagRes.kind = "err" <=> Len(HexForm(digArg)) < 16
    /\ Len(HexForm(digArg)) >= 16 =>
           /\ tagRes = [kind |-> "ok", tag |-> TagPrefixText \o FirstSixteen(digArg)]
           /\ \A other \in TagDigests :
                  (Len(HexForm(other)) >= 16
                   /\ FirstSixteen(other) = FirstSixteen(digArg))
                      => digestAsTagResult(other) = tagRes

\* C18, as stated: digestAsTag fails exactly when the digest's encoded hex
\* form has fewer than 16 characters; otherwise it returns the fixed prefix
\* followed by the first 16 hex characters, so two digests sharing their
\* first 16 hex characters get identical tags.
C18_Original ==
    tagRes.kind /= "none" => TagAsClaimed

\* C18 on the digests that have a separator, where the code does what the
\* claim says.
C18_WithSeparator ==
    (tagRes.kind /= "none" /\ \E i \in 1..Len(digArg) : digArg[i] = ":")
        => TagAsClaimed

C18_Witness ==
    /\ tagRes.kind = "ok"
    /\ Len(HexForm(digArg)) = 17
    /\ \E other \in TagDigests :
           /\ other /= digArg
           /\ Len(HexForm(other)) = 16
           /\ FirstSixteen(other) = FirstSixteen(digArg)

\* Both functions have been called on the digest and the reference under test.
BothCalled == tagRes.kind /= "none" /\ matchRes /= "none"

TagEqualsRef == tagRes.kind = "ok" /\ tagRes.tag = refArg.tag

\* C19, as stated: digestMatchesRef(reference, digest) is true exactly when
\* digestAsTag(digest) succeeds and equals the reference's tag.
C19_Original ==
    BothCalled => (matchRes = "true" <=> TagEqualsRef)

\* C19, amended: when digestAsTag(digest) succeeds and equals the reference's
\* tag, digestMatchesRef is true; and when digestMatchesRef is true of a tag
\* that is the known prefix followed by exactly 16 characters, digestAsTag
\* succeeds and equals that tag.
C19_TagEqualImpliesMatch ==
    BothCalled =>
        /\ TagEqualsRef => matchRes = "true"
        /\ (/\ matchRes = "true"
            /\ Len(refArg.tag) = Len(TagPrefixText) + 16
            /\ SubSeq(refArg.tag, 1, Len(TagPrefixText)) = TagPrefixText)
               => TagEqualsRef

C19_Witness ==
    /\ BothCalled
    /\ TagEqualsRef
    /\ matchRes = "true"
    /\ Len(HexForm(digArg)) = 17

\* The part of the reference's tag after the known prefix, when the tag
\* begins with the known prefix.
BeginsWithPrefix(tag) ==
    /\ Len(tag) >= Len(TagPrefixText)
    /\ SubSeq(tag, 1, Len(TagPrefixText)) = TagPrefixText

AfterPrefix(tag) == SubSeq(tag, Len(TagPrefixText) + 1, Len(tag))

IsPrefixOf(t, s) == Len(t) <= Len(s) /\ \A i \in 1..Len(t) : t[i] = s[i]

\* C20, as stated: digestMatchesRef is true if and only if the reference's
\* tag is the known tag prefix followed by a non-empty prefix of the digest's
\* encoded hex form; a tag no longer than the known prefix never matches.
C20_Original ==
    matchRes /= "none" =>
        /\ matchRes = "true" <=>
               /\ BeginsWithPrefix(refArg.tag)
               /\ AfterPrefix(refArg.tag) /= <<>>
               /\ IsPrefixOf(AfterPrefix(refArg.tag), HexForm(digArg))
        /\ Len(refArg.tag) <= Len(TagPrefixText) => matchRes /= "true"

\* What the code decides on, for C20: as many characters as the known prefix
\* has are cut from the tag without being compared with it.
C20_CutsByLength ==
    matchRes /= "none" =>
        /\ matchRes = "true" <=>
               /\ Len(refArg.tag) > Len(TagPrefixText)
               /\ IsPrefixOf(AfterPrefix(refArg.tag), HexForm(digArg))
        /\ Len(refArg.tag) <= Len(TagPrefixText) => matchRes /= "true"

C20_Witness ==
    /\ matchRes = "true"
    /\ ~BeginsWithPrefix(refArg.tag)
    /\ Len(refArg.tag) = Len(TagPrefixText) + 2

\* The packaging pass has returned an error.
PackagingFailed == tarErr \notin {"none", "nil"}

\* buildFromDf has returned (or has been unwound by a panic).
Returned == op = "build" /\ pc \in {"done", "panic"}

C15_Closed ==
    PackagingFailed =>
        /\ pwErr = tarErr
        /\ lastRead /= "EOF"
        /\ retRef = [name |-> "", tag |-> <<>>]

\* A read of the context stream made after the packaging pass has failed.
C15_ReadAfterFailure ==
    (PackagingFailed /\ lastRead' /= lastRead) => lastRead' = tarErr

C16_ResourcesReleased ==
    /\ [](Returned /\ retErr /= "daemon request" => bodyCloses = 1)
    /\ (Returned ~> pwErr /= "open")

\* The part of C16 about the response body: closed exactly once on every
\* exit path after a successful daemon request, and never without one.
C16_BodyClosedOnce ==
    Returned => bodyCloses = (IF retErr = "daemon request" THEN 0 ELSE 1)

C16_Witness ==
    /\ Returned
    /\ retRef.tag /= <<>>
    /\ bodyCloses = 1
    /\ pwErr = "EOF"

\* C17: the packaging unit always eventually terminates: a packaging pass
\* that has started, blocked in a pipe write or not, ends with the unit
\* closing the stream.
C17_PackagingTerminates ==
    (tarPc \in {"running", "writing"}) ~> (tarPc = "closed")

\* What holds of a blocked write, for C17: once the read end is closed the
\* write fails and the unit closes the stream with that error.
C17_ClosedReaderUnblocks ==
    (tarPc = "writing" /\ prClosed) ~> (tarPc = "closed" /\ pwErr = tarErr)

\* The state the packaging unit stays in for ever: blocked in a write, the
\* read end open, and buildFromDf gone.
C17_Witness ==
    /\ Returned
    /\ tarPc = "writing"
    /\ ~prClosed

\* A record that carries the graph-trace identifier and no aux payload, and
\* is no error record.
IsBareTrace(m) ==
    /\ ~m.malformed
    /\ ~IsErrorRecord(m)
    /\ m.ID = "moby.buildkit.trace"
    /\ ~m.Aux.present

\* C23: the trace renderer is invoked only for records that carry an aux
\* payload: a record with the graph-trace identifier and no payload is
\* processed without a fault and without a call of toBuildkitStatus.
C23_TraceOnlyWithPayload ==
    op = "build" =>
        \A i \in 1..pos :
            IsBareTrace(stream[i]) => (i \notin forwarded /\ ~(pc = "panic" /\ pos = i))

\* What the code does, for C23: every record with the graph-trace identifier
\* that is reached is handed to toBuildkitStatus, with or without a payload,
\* and the one without a payload ends the decode with a fault.
C23_EveryTraceForwarded ==
    op = "build" =>
        \A i \in 1..pos :
            /\ (~stream[i].malformed /\ ~IsErrorRecord(stream[i])
                /\ stream[i].ID = "moby.buildkit.trace") <=> i \in forwarded
            /\ IsBareTrace(stream[i]) => (pc = "panic" /\ pos = i)

C23_Witness ==
    /\ op = "build"
    /\ pc = "panic"
    /\ pos = 2
    /\ IsBareTrace(stream[2])
    /\ stream[1].Aux.present
    /\ result.aux.present

\* ------------------------------------------------------ log stream reader

\* Highest checkpoint a view of the model carries.
MaxCheckpoint == 2

\* Most views one connection delivers.
MaxViews == 3

\* The view whose log list covers [from, to): one segment per position.
ViewOf(from, to, start) ==
    [FromCheckpoint |-> from,
     ToCheckpoint   |-> to,
     Segments       |-> [k \in 1..(to - from) |-> from + k - 1],
     TiltStartTime  |-> start]

\* "The server has no new logs": the interval [-1, -1).
NoNewLogsView == ViewOf(-1, -1, "t1")

Intervals ==
    {i \in (0..MaxCheckpoint) \X (0..MaxCheckpoint) : i[1] <= i[2]}

\* The views a server sends: every interval with 0 <= from <= to, each with
\* exactly to - from segments, the no-new-logs view, and a full view of a
\* second server run. A message that fails to unmarshal reaches the handler
\* as the zero view, which is the interval [0, 0).
Views ==
    {ViewOf(i[1], i[2], "t1") : i \in Intervals}
        \cup {NoNewLogsView, ViewOf(0, MaxCheckpoint, "t2")}

\* LogStreamer.Handle on view v with local checkpoint cp and log store
\* store. The slice expression segments[deleteCount:] faults when
\* deleteCount exceeds the number of segments. Each appended segment is
\* recorded with the checkpoint that was current when it was appended.
Handle(v, cp, store) ==
    LET fromCheckpoint == v.FromCheckpoint
        toCheckpoint   == v.ToCheckpoint
        deleteCount    == IF fromCheckpoint < cp THEN cp - fromCheckpoint
                          ELSE 0
        kept           == Len(v.Segments) - deleteCount
    IN  IF fromCheckpoint = -1
        THEN [fault |-> FALSE, checkpoint |-> cp, logstore |-> store]
        ELSE IF deleteCount > Len(v.Segments)
        THEN [fault |-> TRUE, checkpoint |-> cp, logstore |-> store]
        ELSE [fault      |-> FALSE,
              checkpoint |-> IF toCheckpoint > cp THEN toCheckpoint ELSE cp,
              logstore   |-> store \o
                  [k \in 1..kept |->
                      [seg  |-> v.Segments[deleteCount + k],
                       view |-> v,
                       at   |-> cp]]]

\* Listen dials the server; on success it starts the reader goroutine and
\* enters its select loop.
Dial ==
    /\ pc = "idle"
    /\ op' = "listen"
    /\ ctxErr' = "nil"
    /\ \E ok \in BOOLEAN :
         IF ok
         THEN /\ pc' = "listening"
              /\ rpc' = "read"
              /\ mpc' = "select"
              /\ listenErr' = "nil"
         ELSE /\ pc' = "done"
              /\ rpc' = "idle"
              /\ mpc' = "returned"
              /\ listenErr' = "dialing websocket"
    /\ checkpoint' = 0
    /\ logstore' = <<>>
    /\ received' = <<>>
    /\ handled' = {}
    /\ acks' = <<>>
    /\ UNCHANGED <<decVars, callVars, synVars, tagVars, pipeVars, upVars>>

\* The reader goroutine receives a message and unmarshals it into a view.
ReadMessage ==
    /\ rpc = "read"
    /\ mpc /= "returned"
    /\ Len(received) < MaxViews
    /\ \E v \in Views : received' = Append(received, v)
    /\ rpc' = "handle"
    /\ UNCHANGED <<op, pc, ctxErr, checkpoint, logstore, handled, acks, mpc,
                   listenErr>>
    /\ UNCHANGED <<decVars, callVars, synVars, tagVars, pipeVars, upVars>>

\* The read fails (the server closed the connection, or Listen returned and
\* closed it): the goroutine logs the error and returns, closing done.
ReadMessageFails ==
    /\ rpc = "read"
    /\ rpc' = "exit"
    /\ UNCHANGED <<op, pc, ctxErr, checkpoint, logstore, received, handled,
                   acks, mpc, listenErr>>
    /\ UNCHANGED <<decVars, callVars, synVars, tagVars, pipeVars, upVars>>

\* The goroutine hands the view to the handler. A fault in the handler is
\* not recovered and ends the process.
HandleView ==
    /\ rpc = "handle"
    /\ LET r == Handle(received[Len(received)], checkpoint, logstore)
       IN  /\ handled' = handled \cup {Len(received)}
           /\ checkpoint' = r.checkpoint
           /\ logstore' = r.logstore
           /\ rpc' = IF r.fault THEN "panic" ELSE "handled"
    /\ UNCHANGED <<op, pc, ctxErr, received, acks, mpc, listenErr>>
    /\ UNCHANGED <<decVars, callVars, synVars, tagVars, pipeVars, upVars>>

\* After the handler: with a to-checkpoint above 0 the goroutine builds the
\* acknowledgement and starts writing it; otherwise it reads on.
AckView ==
    /\ rpc = "handled"
    /\ LET v == received[Len(received)]
       IN  IF v.ToCheckpoint > 0
           THEN /\ acks' = Append(acks, [msg           |-> Len(received),
                                         ToCheckpoint  |-> v.ToCheckpoint,
                                         TiltStartTime |-> v.TiltStartTime])
                /\ rpc' = "ack"
           ELSE /\ acks' = acks
                /\ rpc' = "read"
    /\ UNCHANGED <<op, pc, ctxErr, checkpoint, logstore, received, handled,
                   mpc, listenErr>>
    /\ UNCHANGED <<decVars, callVars, synVars, tagVars, pipeVars, upVars>>

\* The acknowledgement's write returns; a write error is only logged.
AckWritten ==
    /\ rpc = "ack"
    /\ rpc' = "read"
    /\ UNCHANGED <<op, pc, ctxErr, checkpoint, logstore, received, handled,
                   acks, mpc, listenErr>>
    /\ UNCHANGED <<decVars, callVars, synVars, tagVars, pipeVars, upVars>>

\* Listen's select sees done closed and returns nil.
ListenDone ==
    /\ mpc \in {"select", "waiting"}
    /\ rpc = "exit"
    /\ mpc' = "returned"
    /\ pc' = "done"
    /\ listenErr' = "nil"
    /\ UNCHANGED <<op, ctxErr, checkpoint, logstore, received, handled, acks,
                   rpc>>
    /\ UNCHANGED <<decVars, callVars, synVars, tagVars, pipeVars, upVars>>

\* Listen's select sees the context done: any error but Canceled is
\* returned; on Canceled it starts writing the close message.
CtxDone ==
    /\ mpc = "select"
    /\ rpc /= "panic"
    /\ ctxErr /= "nil"
    /\ IF ctxErr /= "Canceled"
       THEN /\ mpc' = "returned"
            /\ pc' = "done"
            /\ listenErr' = ctxErr
       ELSE /\ mpc' = "closing"
            /\ UNCHANGED <<pc, listenErr>>
    /\ UNCHANGED <<op, ctxErr, checkpoint, logstore, received, handled, acks,
                   rpc>>
    /\ UNCHANGED <<decVars, callVars, synVars, tagVars, pipeVars, upVars>>

\* The close message's write returns: on an error Listen returns it, else
\* it waits for done or for the timeout.
CloseWritten ==
    /\ mpc = "closing"
    /\ rpc /= "panic"
    /\ \E ok \in BOOLEAN :
         IF ok
         THEN /\ mpc' = "waiting"
              /\ UNCHANGED <<pc, listenErr>>
         ELSE /\ mpc' = "returned"
              /\ pc' = "done"
              /\ listenErr' = "writing CloseMessage to websocket"
    /\ UNCHANGED <<op, ctxErr, checkpoint, logstore, received, handled, acks,
                   rpc>>
    /\ UNCHANGED <<decVars, callVars, synVars, tagVars, pipeVars, upVars>>

\* The one-second timer fires before the server closes the connection.
TimeAfter ==
    /\ mpc = "waiting"
    /\ rpc /= "panic"
    /\ mpc' = "returned"
    /\ pc' = "done"
    /\ listenErr' = "nil"
    /\ UNCHANGED <<op, ctxErr, checkpoint, logstore, received, handled, acks,
                   rpc>>
    /\ UNCHANGED <<decVars, callVars, synVars, tagVars, pipeVars, upVars>>

\* One Listen call with its reader goroutine.
NextListen ==
    \/ Dial
    \/ ReadMessage
    \/ ReadMessageFails
    \/ HandleView
    \/ AckView
    \/ AckWritten
    \/ ListenDone
    \/ CtxDone
    \/ CloseWritten
    \/ TimeAfter
    \/ Cancel

SpecListen == Init /\ [][NextListen]_vars

\* ------------------------------------------------------------ claims, logs

\* C21: for every sequence of views that each carry exactly to - from
\* segments for an interval with 0 <= from <= to, the handler completes
\* without fault, every segment it appends lies at or above the local
\* checkpoint of the moment, and no log position of one server run is
\* appended twice.
C21_AppendsOnlyNew ==
    op = "listen" =>
        /\ rpc /= "panic"
        /\ \A k \in 1..Len(logstore) : logstore[k].seg >= logstore[k].at
        /\ \A k, l \in 1..Len(logstore) :
             (k /= l
              /\ logstore[k].view.TiltStartTime = logstore[l].view.TiltStartTime)
                 => logstore[k].seg /= logstore[l].seg

\* C21, what the code guarantees: a handler call that returns has appended
\* only segments at or above the local checkpoint; the call faults exactly
\* on a view that ends below the local checkpoint.
C21_ReturnedCallsAppendNew ==
    /\ \A k \in 1..Len(logstore) : logstore[k].seg >= logstore[k].at
    /\ \A k, l \in 1..Len(logstore) :
         k /= l => logstore[k].seg /= logstore[l].seg
    /\ [][(rpc = "handle" /\ rpc' /= "handle") =>
            LET v == received[Len(received)]
            IN  /\ (rpc' = "panic") <=>
                       (v.FromCheckpoint /= -1 /\ v.ToCheckpoint < checkpoint)
                /\ rpc' = "panic" => logstore' = logstore]_vars

C21_Witness ==
    /\ op = "listen"
    /\ rpc = "panic"
    /\ Len(received) = 2
    /\ received[1] = ViewOf(0, 2, "t1")
    /\ received[2] = ViewOf(0, 1, "t1")
    /\ checkpoint = 2
    /\ Len(logstore) = 2

\* The reader goroutine is past its acknowledgement decision for message i,
\* or has ended before reaching it.
PastAck(i) == i < Len(received) \/ rpc \notin {"handle", "handled"}

AckedMsgs == {acks[k].msg : k \in 1..Len(acks)}

\* What every written acknowledgement satisfies: it follows the handler's
\* invocation for its message, carries that message's to-checkpoint and
\* start time, and comes after the acknowledgements of earlier messages.
AcksWellFormed ==
    /\ \A k \in 1..Len(acks) :
         /\ acks[k].msg \in handled
         /\ acks[k].ToCheckpoint = received[acks[k].msg].ToCheckpoint
         /\ acks[k].TiltStartTime = received[acks[k].msg].TiltStartTime
    /\ \A k, l \in 1..Len(acks) : k < l => acks[k].msg < acks[l].msg

\* C22: every received message is acknowledged exactly when its
\* to-checkpoint is above 0; an acknowledgement is written only after the
\* handler was invoked for its message, carries the message's to-checkpoint
\* and start time, and acknowledgements follow the order of the messages.
C22_AckProtocol ==
    op = "listen" =>
        /\ \A i \in 1..Len(received) :
             PastAck(i) => (i \in AckedMsgs <=> received[i].ToCheckpoint > 0)
        /\ AcksWellFormed

\* C22, what the code guarantees: the same for every message whose handler
\* call returned; a message whose handler call faulted is never
\* acknowledged.
C22_AckAfterHandlerReturns ==
    op = "listen" =>
        /\ \A i \in 1..Len(received) :
             PastAck(i) =>
                 IF i = Len(received) /\ rpc = "panic"
                 THEN i \notin AckedMsgs
                 ELSE i \in AckedMsgs <=> received[i].ToCheckpoint > 0
        /\ AcksWellFormed

C22_Witness ==
    /\ op = "listen"
    /\ rpc = "read"
    /\ Len(received) = 3
    /\ received[2] = NoNewLogsView
    /\ AckedMsgs = {1, 3}
    /\ acks[1].ToCheckpoint = 1
    /\ acks[2].ToCheckpoint = MaxCheckpoint
    /\ acks[1].TiltStartTime /= acks[2].TiltStartTime

\* A write on the websocket connection is in progress in the reader
\* goroutine (the acknowledgement) or in Listen itself (the close message).
ReaderWriting == rpc = "ack"

MainWriting == mpc = "closing"

\* C24: at most one execution unit writes to the websocket connection at
\* any time: the acknowledgement write and the close-message write are
\* never in progress together.
C24_SingleWriter ==
    op = "listen" => ~(ReaderWriting /\ MainWriting)

\* C24, what the code guarantees: the close message is written only after
\* the context was cancelled, at most once, and each goroutine has at most
\* one write of its own in progress.
C24_CloseOnlyOnCancel ==
    /\ MainWriting => ctxErr = "Canceled"
    /\ [][(mpc /= "closing" /\ mpc' = "closing") => mpc = "select"]_vars
    /\ [][(mpc = "waiting" \/ mpc = "returned") => mpc' /= "closing"]_vars

C24_Witness ==
    /\ op = "listen"
    /\ ReaderWriting
    /\ MainWriting
    /\ ctxErr = "Canceled"
    /\ Len(acks) = 1

\* ------------------------------------------------------- snapshot upload

StatusOK == 200

\* errors.Wrap: nil stays nil, any other error is annotated.
Wrap(err, msg) == IF err = "nil" THEN "nil" ELSE msg

\* What one Upload call meets: whether the snapshot encodes and the request
\* can be built, the team, whether the transport delivers a response, and
\* the response's status, whether its body can be read and decoded, and the
\* ID the decoded body carries.
UploadInputs ==
    [kind       : {"upload"},
     encodeErr  : {"nil", "encode"},
     requestErr : {"nil", "url"},
     teamID     : {"", "team"},
     doErr      : {"nil", "transport"},
     StatusCode : {StatusOK, 404, 500},
     readErr    : {"nil", "read"},
     decodeErr  : {"nil", "decode"},
     ID         : {"", "snap"}]

UploadReturn(id, err, headers, closes) ==
    [kind |-> "returned", id |-> id, err |-> err, headers |-> headers,
     closes |-> closes]

\* snapshotUploader.Upload: the snapshot ID and error it returns, the
\* headers it set on the request, and how often it closed the body.
Upload(in) ==
    LET headers == IF in.teamID /= "" THEN {"token", "team"} ELSE {"token"}
    IN  IF in.encodeErr /= "nil"
        THEN UploadReturn("", Wrap(in.encodeErr, "encoding snapshot"), {}, 0)
        ELSE IF in.requestErr /= "nil"
        THEN UploadReturn("", Wrap(in.requestErr, "Upload NewRequest"), {}, 0)
        ELSE IF in.doErr /= "nil"
        THEN UploadReturn("", Wrap(in.doErr, "Upload"), headers, 0)
        ELSE IF in.StatusCode /= StatusOK
        THEN IF in.readErr /= "nil"
             THEN UploadReturn("", "posting snapshot failed, and then reading snapshot response failed",
                               headers, 1)
             ELSE UploadReturn("", "posting snapshot failed", headers, 1)
        ELSE IF in.decodeErr /= "nil" \/ in.ID = ""
        THEN UploadReturn("", Wrap(in.decodeErr, "Upload reading response"),
                          headers, 1)
        ELSE UploadReturn(in.ID, "nil", headers, 1)

UploadCall ==
    /\ upRet = NoUpload
    /\ upIn /= NoUpload
    /\ upRet' = Upload(upIn)
    /\ op' = "upload"
    /\ pc' = "done"
    /\ UNCHANGED <<upIn, ctxErr, decVars, callVars, synVars, tagVars,
                   pipeVars, wsVars>>

InitUpload ==
    /\ InitCalls
    /\ upIn \in UploadInputs
    /\ digArg = <<>>
    /\ refArg = NoRef
    /\ runs = <<>>
    /\ paths = <<>>
    /\ entrypoint = <<>>
    /\ extraLabels = <<>>

NextUpload == UploadCall

SpecUpload == InitUpload /\ [][NextUpload]_vars

\* ---------------------------------------------------------- claims, upload

\* The response reached Upload: the snapshot encoded, the request was built
\* and the transport delivered a response.
Responded ==
    /\ upIn.encodeErr = "nil"
    /\ upIn.requestErr = "nil"
    /\ upIn.doErr = "nil"

Sent == upIn.encodeErr = "nil" /\ upIn.requestErr = "nil"

\* C25: Upload returns a nil error only together with a non-empty snapshot
\* ID; a 200 response that decodes but carries an empty ID, a non-200
\* status, a transport failure and an undecodable body each give a non-nil
\* error.
C25_NilOnlyWithID ==
    upRet /= NoUpload =>
        /\ upRet.err = "nil" => upRet.id /= ""
        /\ (Responded /\ upIn.StatusCode = StatusOK /\ upIn.decodeErr = "nil"
            /\ upIn.ID = "") => upRet.err /= "nil"
        /\ (Responded /\ upIn.StatusCode /= StatusOK) => upRet.err /= "nil"
        /\ (Sent /\ upIn.doErr /= "nil") => upRet.err /= "nil"
        /\ (Responded /\ upIn.StatusCode = StatusOK /\ upIn.decodeErr /= "nil")
               => upRet.err /= "nil"

\* C25, what the code guarantees: a non-200 status, a transport failure and
\* an undecodable body give a non-nil error and an empty ID, a non-empty ID
\* is returned only with a nil error, and a nil error comes with an empty
\* ID exactly for a 200 response that decodes to an empty ID.
C25_OtherFailuresReported ==
    upRet /= NoUpload =>
        /\ (Responded /\ upIn.StatusCode /= StatusOK) => upRet.err /= "nil"
        /\ (Sent /\ upIn.doErr /= "nil") => upRet.err /= "nil"
        /\ (Responded /\ upIn.StatusCode = StatusOK /\ upIn.decodeErr /= "nil")
               => upRet.err /= "nil"
        /\ upRet.id /= "" => (upRet.err = "nil" /\ upRet.id = upIn.ID)
        /\ (upRet.err = "nil" /\ upRet.id = "") <=>
               (Responded /\ upIn.StatusCode = StatusOK
                /\ upIn.decodeErr = "nil" /\ upIn.ID = "")

C25_Witness ==
    /\ upRet /= NoUpload
    /\ Responded
    /\ upIn.StatusCode = StatusOK
    /\ upIn.decodeErr = "nil"
    /\ upIn.ID = ""
    /\ upIn.teamID = "team"
    /\ upRet.err = "nil"
    /\ upRet.id = ""
    /\ upRet.closes = 1

====
